---- MODULE Spec2Model ----
(***************************************************************************)
(* Speak2Fill backend: the /chat turn processor (routes/chat.py) over the  *)
(* in-memory session state (services/session_service.py), with the session *)
(* creation of /analyze-form, the language stickiness of /stt, the SQLite  *)
(* session store (services/storage_service.py), the validation of the     *)
(* request body (schemas/models.py) and the OCR warm-up of /upload-form    *)
(* (routes/upload.py, services/ocr_service.py).                            *)
(*                                                                         *)
(* /chat is an `async def` handler: every request runs as a coroutine on   *)
(* one event loop, so the code between two awaits that really suspend runs *)
(* atomically, and other requests run while a coroutine is suspended in an *)
(* external call (asyncio.to_thread in SarvamService).  Each action below  *)
(* is one such atomic segment of a handler.                                *)
(*                                                                         *)
(* Texts are sequences of one-character strings; Python's None is a record *)
(* of its own shape (NoSession, NoField, NoAction, NoTurn).                *)
(***************************************************************************)
EXTENDS Integers, Sequences, FiniteSets, TLC

VARIABLES
    sessions,   \* SessionService._sessions: session_id -> SessionState
    turns,      \* the /chat requests in flight, one per slot
    last,       \* the response the last step sent, if it sent one
    hist,       \* per session: history the claims refer to (not program state)
    store,      \* the SQLite database of storage_service.py: its two tables
    lock,       \* SQLiteSessionStore._lock: the operation that holds it
    ocr         \* the OCRService, its warm-up threads, the uploads in flight

vars == <<sessions, turns, last, hist, store, lock, ocr>>

-----------------------------------------------------------------------------
(* Bounds of the model *)

\* longest field catalog a session is created with
MaxFields == 2
\* number of /chat requests that can be in flight at once
MaxInFlight == 2

\* Sessions are independent entries of SessionService._sessions, and a turn
\* touches only the entry of its session_id: the model follows one session.
SessionIds == {"s1"}
Slots == 1..MaxInFlight

-----------------------------------------------------------------------------
(* Python values *)

NoSession == [none |-> "session"]
NoField == [none |-> "field"]
NoAction == [none |-> "action"]
NoLanguage == "None"
NoTurn == [none |-> "turn"]

ASK_INPUT == "ASK_INPUT"
AWAIT_CONFIRMATION == "AWAIT_CONFIRMATION"
Phase == {ASK_INPUT, AWAIT_CONFIRMATION}

Events == {"USER_SPOKE", "CONFIRM_DONE", "SKIP_FIELD"}

-----------------------------------------------------------------------------
(* Text: str.strip() and str.lower() *)

Whitespace == {" ", "\t", "\n"}

UpperChars == <<"A","B","C","D","E","F","G","H","I","J","K","L","M",
                "N","O","P","Q","R","S","T","U","V","W","X","Y","Z">>
LowerChars == <<"a","b","c","d","e","f","g","h","i","j","k","l","m",
                "n","o","p","q","r","s","t","u","v","w","x","y","z">>

LowerChar(c) ==
    IF \E i \in 1..Len(UpperChars) : UpperChars[i] = c
    THEN LowerChars[CHOOSE i \in 1..Len(UpperChars) : UpperChars[i] = c]
    ELSE c

\* str.lower() leaving the letters as they are
KeepCase(s) == s

Lower(s) == [i \in 1..Len(s) |-> LowerChar(s[i])]

UpperChar(c) ==
    IF \E i \in 1..Len(LowerChars) : LowerChars[i] = c
    THEN UpperChars[CHOOSE i \in 1..Len(LowerChars) : LowerChars[i] = c]
    ELSE c

\* str.upper()
Upper(s) == [i \in 1..Len(s) |-> UpperChar(s[i])]

\* str.replace(old, new) for single characters
Replace(s, old, new) == [i \in 1..Len(s) |-> IF s[i] = old THEN new ELSE s[i]]

RECURSIVE LStrip(_)
LStrip(s) ==
    IF s # <<>> /\ Head(s) \in Whitespace THEN LStrip(Tail(s)) ELSE s

RECURSIVE RStrip(_)
RStrip(s) ==
    IF s # <<>> /\ s[Len(s)] \in Whitespace
    THEN RStrip(SubSeq(s, 1, Len(s) - 1))
    ELSE s

Strip(s) == RStrip(LStrip(s))

\* str.isdigit() on the characters the texts are made of
Digits == {"0","1","2","3","4","5","6","7","8","9"}

\* " ".join(t.split()) for a text t without leading or trailing whitespace
RECURSIVE JoinSplit(_)
JoinSplit(t) ==
    IF t = <<>> THEN <<>>
    ELSE IF Head(t) \notin Whitespace THEN <<Head(t)>> \o JoinSplit(Tail(t))
    ELSE IF Len(t) > 1 /\ t[2] \in Whitespace THEN JoinSplit(Tail(t))
    ELSE <<" ">> \o JoinSplit(Tail(t))

\* GeminiLiveService._normalize: the only value normalisation in the
\* repository; routes/chat.py does not call it
normalize(text, write_language) ==
    LET t == Strip(text) IN
    IF write_language = "numeric"
    THEN SelectSeq(t, LAMBDA ch : ch \in Digits)
    ELSE JoinSplit(t)

\* chat.py line 88
confirmation_words ==
    { <<"d","o","n","e">>,
      <<"f","i","n","i","s","h","e","d">>,
      <<"o","k">>,
      <<"c","o","m","p","l","e","t","e","d">>,
      <<"y","e","s">>,
      <<"y">>,
      <<"c","o","n","f","i","r","m","e","d">> }

\* The request texts the clients send (user_text, or the legacy user_message).
UserTexts ==
    { <<>>,
      <<" ","O","k"," ">>,
      <<"a"," ","1">> }

\* What the value-extraction model answers besides the text itself.
OtherValue == <<"1">>

-----------------------------------------------------------------------------
(* Field catalogs: what the field analysis gives /analyze-form *)

FieldKinds ==
    << [label |-> "Name",  input_mode |-> "voice",       write_language |-> "en"],
       [label |-> "DOB",   input_mode |-> "placeholder", write_language |-> "en"],
       [label |-> "Phone", input_mode |-> "voice",       write_language |-> "numeric"] >>

\* _generate_field_id: the label in snake case, then "_<index>"
LabelSlug == [Name |-> "name", DOB |-> "dob", Phone |-> "phone"]
GenerateFieldId(label, index) == <<LabelSlug[label], index>>

\* Catalog of n fields whose kinds follow FieldKinds cyclically from `first`.
Catalog(n, first) ==
    [k \in 1..n |->
        LET kind == FieldKinds[((first + k - 2) % Len(FieldKinds)) + 1] IN
        [ field_id       |-> GenerateFieldId(kind.label, k - 1),
          label          |-> kind.label,
          bbox           |-> <<10 * k, 10, 10 * k + 70, 30>>,
          input_mode     |-> kind.input_mode,
          write_language |-> kind.write_language ] ]

ImageWidth == 300
ImageHeight == 120

-----------------------------------------------------------------------------
(* session_service.py: SessionState and SessionService *)

\* create_session keeping the fields in reverse order
SessionStateReversed(session_id, fields, image_width, image_height) ==
    [ session_id          |-> session_id,
      current_field_index |-> 0,
      phase               |-> ASK_INPUT,
      fields              |-> [k \in 1..Len(fields) |-> fields[Len(fields) + 1 - k]],
      collected_values    |-> <<>>,
      image_width         |-> image_width,
      image_height        |-> image_height ]

\* SessionService.create_session: the state of a new session
SessionState(session_id, fields, image_width, image_height) ==
    [ session_id          |-> session_id,
      current_field_index |-> 0,
      phase               |-> ASK_INPUT,
      fields              |-> fields,
      collected_values    |-> <<>>,
      image_width         |-> image_width,
      image_height        |-> image_height ]

\* The session's sticky language, which chat.py line 68 and stt.py line 74
\* read from the session state: not set when the session is created.
LanguageField == [detected_language |-> NoLanguage]

get_session(S, session_id) ==
    IF session_id \in DOMAIN S THEN S[session_id] ELSE NoSession

update_session(S, session_id, state) ==
    [S EXCEPT ![session_id] = state]

\* get_current_field with the bound off by one: the last field of a session
\* is not found
get_current_field_short(S, session_id) ==
    LET state == get_session(S, session_id) IN
    IF state = NoSession THEN NoField
    ELSE IF state.current_field_index >= Len(state.fields) - 1 THEN NoField
    ELSE state.fields[state.current_field_index + 1]

get_current_field(S, session_id) ==
    LET state == get_session(S, session_id) IN
    IF state = NoSession THEN NoField
    ELSE IF state.current_field_index >= Len(state.fields) THEN NoField
    ELSE state.fields[state.current_field_index + 1]

\* has_more_fields with the comparison off by one: a session whose index has
\* reached len(fields) still counts as having a field
has_more_fields_inclusive(S, session_id) ==
    LET state == get_session(S, session_id) IN
    IF state = NoSession THEN FALSE
    ELSE state.current_field_index <= Len(state.fields)

has_more_fields(S, session_id) ==
    LET state == get_session(S, session_id) IN
    IF state = NoSession THEN FALSE
    ELSE state.current_field_index < Len(state.fields)

\* advance_to_next_field stepping over two fields
advance_by_two(S, session_id) ==
    LET state == get_session(S, session_id) IN
    IF state = NoSession THEN S
    ELSE update_session(S, session_id,
            [state EXCEPT !.current_field_index = @ + 2,
                          !.phase = ASK_INPUT])

\* advance_to_next_field without the phase reset
advance_keeping_phase(S, session_id) ==
    LET state == get_session(S, session_id) IN
    IF state = NoSession THEN S
    ELSE update_session(S, session_id,
            [state EXCEPT !.current_field_index = @ + 1])

\* advance_to_next_field recording an empty value for the field it leaves
advance_recording_empty(S, session_id) ==
    LET state == get_session(S, session_id) IN
    IF state = NoSession THEN S
    ELSE update_session(S, session_id,
            [state EXCEPT !.current_field_index = @ + 1,
                          !.phase = ASK_INPUT,
                          !.collected_values =
                              (state.fields[state.current_field_index + 1].field_id
                                  :> <<>>) @@ @])

\* advance_to_next_field resetting the phase and leaving the index
advance_without_moving(S, session_id) ==
    LET state == get_session(S, session_id) IN
    IF state = NoSession THEN S
    ELSE update_session(S, session_id, [state EXCEPT !.phase = ASK_INPUT])

advance_to_next_field(S, session_id) ==
    LET state == get_session(S, session_id) IN
    IF state = NoSession THEN S
    ELSE update_session(S, session_id,
            [state EXCEPT !.current_field_index = @ + 1,
                          !.phase = ASK_INPUT])

set_phase(S, session_id, phase) ==
    LET state == get_session(S, session_id) IN
    IF state = NoSession THEN S
    ELSE update_session(S, session_id, [state EXCEPT !.phase = phase])

\* dict assignment d[k] = v
DictSet(d, k, v) == (k :> v) @@ d
\* dict.get(k, default)
DictGet(d, k, default) == IF k \in DOMAIN d THEN d[k] ELSE default

store_value(S, session_id, field_id, value) ==
    LET state == get_session(S, session_id) IN
    IF state = NoSession THEN S
    ELSE update_session(S, session_id,
            [state EXCEPT !.collected_values = DictSet(@, field_id, value)])

\* SessionService.set_language: the sticky language of the session
set_language(S, session_id, language) ==
    LET state == get_session(S, session_id) IN
    IF state = NoSession THEN S
    ELSE update_session(S, session_id, [state EXCEPT !.detected_language = language])

-----------------------------------------------------------------------------
(* Languages *)

\* what speech recognition reports (SarvamService.speech_to_text)
DetectedLanguages == {"unknown", "hi-IN"}

\* ... and what it reports over the languages the service knows
RecognizedLanguages == {"unknown", "en-IN", "hi-IN", "ta-IN"}

\* stt.py line 28: the `language` form field, left at its default
FormLanguage == "en"

\* store.get_language: the sessions table keeps the language that line 81
\* writes together with the session's (line 80)
StoredLanguage(S, session_id) ==
    IF get_session(S, session_id) = NoSession THEN NoLanguage
    ELSE get_session(S, session_id).detected_language

\* stt.py line 77 with every call overwriting the language
should_set_always(existing_session_lang, existing_db_lang) == TRUE

\* stt.py line 77
should_set(existing_session_lang, existing_db_lang) ==
    ~(existing_session_lang # NoLanguage \/ existing_db_lang # NoLanguage)

\* a chain of Python `or`: the first operand that is not None
RECURSIVE FirstNonEmpty(_)
FirstNonEmpty(values) ==
    IF Len(values) = 1 \/ Head(values) # NoLanguage THEN Head(values)
    ELSE FirstNonEmpty(Tail(values))

\* stt.py line 85
resolved_language(detected_language, existing_session_lang, existing_db_lang, language) ==
    FirstNonEmpty(<<detected_language, existing_session_lang,
                    existing_db_lang, language>>)

\* The response of /stt (lines 87-90) with the call it answers: the language
\* the recognition reported and the session's language before the call.
SttResponse(session_id, detected_language, existing_session_lang, language) ==
    [ step              |-> "stt",
      session_id        |-> session_id,
      detected_language |-> detected_language,
      before            |-> existing_session_lang,
      language          |-> language ]

\* the code before the hyphen, lower-cased
ShortCode(lang) ==
    CASE lang = "hi-IN" -> "hi"
      [] lang = "en-IN" -> "en"
      [] lang = "ta-IN" -> "ta"
      [] OTHER -> lang

\* chat.py _normalize_language
normalize_language(lang) ==
    IF lang = NoLanguage THEN "en"
    ELSE LET lower == ShortCode(lang) IN
         IF lower \in {"en", "hi", "ml", "ta", "te"} THEN lower ELSE "en"

-----------------------------------------------------------------------------
(* storage_service.py: SQLiteSessionStore over the tables `sessions` and   *)
(* `messages`.  A JSON text is the tree of its values, each tagged with    *)
(* its JSON type; the columns created_at, filename and ocr_items_json,     *)
(* which no operation below reads back into a session, are left out.       *)

JString(s) == [json |-> "string", value |-> s]
JNumber(n) == [json |-> "number", value |-> n]
JArray(items) == [json |-> "array", items |-> items]
JObject(members) == [json |-> "object", members |-> members]

\* line 103: json.dumps([f.model_dump() for f in fields])
dumps_fields(fields) ==
    JArray([k \in 1..Len(fields) |->
        JObject([ field_id       |-> JString(fields[k].field_id),
                  label          |-> JString(fields[k].label),
                  bbox           |-> JArray([i \in 1..Len(fields[k].bbox) |->
                                                JNumber(fields[k].bbox[i])]),
                  input_mode     |-> JString(fields[k].input_mode),
                  write_language |-> JString(fields[k].write_language) ])])

\* line 148: json.loads(row["fields_json"])
loads_fields(text) ==
    [k \in 1..Len(text.items) |->
        LET members == text.items[k].members IN
        [ field_id       |-> members.field_id.value,
          label          |-> members.label.value,
          bbox           |-> [i \in 1..Len(members.bbox.items) |->
                                members.bbox.items[i].value],
          input_mode     |-> members.input_mode.value,
          write_language |-> members.write_language.value ]]

\* line 210: json.dumps(filled_fields), a dict of strings
dumps_dict(d) == JObject([k \in DOMAIN d |-> JString(d[k])])

\* lines 150, 206: json.loads(filled_fields_json)
loads_dict(text) == [k \in DOMAIN text.members |-> text.members[k].value]

\* fetchone() finding no row; an operation returning None
NoRow == [none |-> "row"]

\* lines 96-107: the row that create_session inserts
SessionRow(session_id, fields, image_width, image_height) ==
    [ session_id          |-> session_id,
      fields_json         |-> dumps_fields(fields),
      current_field_index |-> 0,
      filled_fields_json  |-> dumps_dict(<<>>),
      language            |-> "en",
      image_width         |-> image_width,
      image_height        |-> image_height ]

\* the database before any session is created (_init_db)
EmptyDb == [sessions |-> <<>>, messages |-> <<>>]

\* SELECT ... FROM sessions WHERE session_id = ?
SelectRow(db, session_id) ==
    IF session_id \in DOMAIN db.sessions THEN db.sessions[session_id] ELSE NoRow

\* UPDATE sessions SET ... WHERE session_id = ?
UpdateRow(db, session_id, row) ==
    IF session_id \in DOMAIN db.sessions
    THEN [db EXCEPT !.sessions[session_id] = row]
    ELSE db

store_create_session(db, session_id, fields, image_width, image_height) ==
    [db EXCEPT !.sessions =
        (session_id :> SessionRow(session_id, fields, image_width, image_height))
            @@ @]

\* lines 113-156: the dict that get_session returns
store_get_session(db, session_id) ==
    LET row == SelectRow(db, session_id) IN
    IF row = NoRow THEN NoRow
    ELSE [ session_id          |-> row.session_id,
           fields              |-> loads_fields(row.fields_json),
           current_field_index |-> row.current_field_index,
           filled_fields       |-> loads_dict(row.filled_fields_json),
           language            |-> row.language,
           image_width         |-> row.image_width,
           image_height        |-> row.image_height ]

append_message(db, session_id, role, content) ==
    [db EXCEPT !.messages =
        Append(@, [session_id |-> session_id, role |-> role, content |-> content])]

advance_field(db, session_id) ==
    LET row == SelectRow(db, session_id) IN
    IF row = NoRow THEN db
    ELSE UpdateRow(db, session_id, [row EXCEPT !.current_field_index = @ + 1])

update_filled_field(db, session_id, field_label, value) ==
    LET row == SelectRow(db, session_id) IN
    IF row = NoRow THEN db
    ELSE UpdateRow(db, session_id,
            [row EXCEPT !.filled_fields_json =
                dumps_dict(DictSet(loads_dict(@), field_label, value))])

update_fields(db, session_id, fields) ==
    LET row == SelectRow(db, session_id) IN
    IF row = NoRow THEN db
    ELSE UpdateRow(db, session_id,
            [row EXCEPT !.fields_json = dumps_fields(fields),
                        !.current_field_index = 0])

\* _with_db: nobody holds the lock
Unlocked == [name |-> "unlocked"]

-----------------------------------------------------------------------------
(* The /chat requests in flight, and the response record *)

\* The requests the clients send: USER_SPOKE with a text; the two button
\* events, whose text the handler never reads.
Requests ==
    [event : {"USER_SPOKE"}, user_text : UserTexts]
      \cup [event : {"CONFIRM_DONE", "SKIP_FIELD"}, user_text : {<<>>}]

\* models.py lines 41-57: the `event` of a request body as the client wrote
\* it.  NoEvent is the JSON null, which is no text.
NoEvent == <<"None">>

\* line 47: the mapping of the accepted spellings
mapping ==
    { <<<<"U","S","E","R">>, "USER_SPOKE">>,
      <<<<"U","S","E","R","_","S","P","O","K","E">>, "USER_SPOKE">>,
      <<<<"C","O","N","F","I","R","M">>, "CONFIRM_DONE">>,
      <<<<"C","O","N","F","I","R","M","_","D","O","N","E">>, "CONFIRM_DONE">>,
      <<<<"C","O","N","F","I","R","M","A","T","I","O","N">>, "CONFIRM_DONE">>,
      <<<<"S","K","I","P">>, "SKIP_FIELD">>,
      <<<<"S","K","I","P","_","F","I","E","L","D">>, "SKIP_FIELD">>,
      <<<<"S","K","I","P","F","I","E","L","D">>, "SKIP_FIELD">> }

\* dict.get(key, default) on the mapping
mapping_get(key, default) ==
    IF \E pair \in mapping : pair[1] = key
    THEN (CHOOSE pair \in mapping : pair[1] = key)[2]
    ELSE default

\* normalize_event looking the event up as it was written
normalize_event_as_written(v) ==
    IF v = NoEvent \/ v = <<>> THEN "USER_SPOKE"
    ELSE mapping_get(v, "USER_SPOKE")

\* lines 43-57: ChatRequest.normalize_event
normalize_event(v) ==
    IF v = NoEvent \/ v = <<>> THEN "USER_SPOKE"
    ELSE LET normalized == Replace(Upper(Strip(v)), " ", "_")
         IN  mapping_get(normalized, "USER_SPOKE")

\* lines 34-39: the validated request
ChatRequest(event, user_text) ==
    [event |-> normalize_event(event), user_text |-> user_text]

\* A request waiting for the event loop to run its handler.  passed_by is
\* history the handler never reads: the events of the turns that moved the
\* session past the field that was current when this request was sent.
Arrival(session_id, req) ==
    [ pc         |-> "arrived",
      session_id |-> session_id,
      event      |-> req.event,
      user_text  |-> req.user_text,
      passed_by  |-> {} ]

\* chat.py line 85: text = (req.user_text or req.user_message or "").strip()
RequestText(req) == Strip(req.user_text)

\* the event as sent, without keyword reinterpretation
RawEvent(req) == req.event

\* chat.py lines 86-91: the event after keyword reinterpretation
EffectiveEvent(req) ==
    IF req.event = "USER_SPOKE" /\ RequestText(req) # <<>>
       /\ Lower(RequestText(req)) \in confirmation_words
    THEN "CONFIRM_DONE"
    ELSE req.event

\* What of a session the state machine decides on and writes.
Core(state) ==
    IF state = NoSession THEN NoSession
    ELSE [ current_field_index |-> state.current_field_index,
           phase               |-> state.phase,
           collected_values    |-> state.collected_values ]

\* A handler suspended in an external call, with the locals it holds.
\* loaded is history: the session as the handler loaded it;
\* changed_since_load is history: whether another turn has changed the
\* session since this handler loaded it.
Suspended(pc, req, current_field, user_lang) ==
    [ pc            |-> pc,
      session_id    |-> req.session_id,
      event         |-> EffectiveEvent(req),
      text          |-> RequestText(req),
      current_field |-> current_field,
      user_lang     |-> user_lang,
      loaded        |-> Core(get_session(sessions, req.session_id)),
      changed_since_load |-> FALSE ]

\* models.py DrawGuideAction, as chat.py builds it
DrawGuideAction(field, text_to_write, state) ==
    [ type          |-> "DRAW_GUIDE",
      field_id      |-> field.field_id,
      field_label   |-> field.label,
      text_to_write |-> text_to_write,
      bbox          |-> field.bbox,
      image_width   |-> state.image_width,
      image_height  |-> state.image_height ]

\* The languages an assistant text can come out in: the user's when the
\* translation (or instruction generation) call succeeds, English when the
\* user's language is English or the call fails.
TextLanguages(user_lang) == {user_lang, "en"}

AssistantText(msg, arg, lang) == [msg |-> msg, arg |-> arg, lang |-> lang]

\* One response, with the turn it answers: its event after reinterpretation,
\* its stripped text, the field it loaded as current, and the session just
\* before the step that sent the response.
Response(step, turn, current_field, before, status, assistant_text, action) ==
    [ step           |-> step,
      session_id     |-> turn.session_id,
      event          |-> IF turn.pc = "arrived" THEN EffectiveEvent(turn)
                         ELSE turn.event,
      text           |-> IF turn.pc = "arrived" THEN RequestText(turn)
                         ELSE turn.text,
      resumed        |-> turn.pc # "arrived",
      passed_by      |-> IF turn.pc = "arrived" THEN turn.passed_by ELSE {},
      changed_since_load |-> turn.pc # "arrived" /\ turn.changed_since_load,
      loaded         |-> IF turn.pc = "arrived" THEN Core(before) ELSE turn.loaded,
      current_field  |-> current_field,
      before         |-> Core(before),
      status         |-> status,
      assistant_text |-> assistant_text,
      action         |-> action ]

NoResponse == [step |-> "none"]

\* Per session: the action of the turn that last entered AWAIT_CONFIRMATION,
\* and the events of the turns a user who works through the form has sent.
NoHistory == [guide |-> NoAction, sent |-> <<>>]

-----------------------------------------------------------------------------
(* services/ocr_service.py: the OCRService with its warm-up thread, and    *)
(* the uploads of /upload-form (routes/upload.py)                          *)

\* the uploads the clients send
MaxUploads == 3
Uploads == 1..MaxUploads

NoError == "None"
WarmupError == "RuntimeError: model download failed"
NoUpload == [pc |-> "none"]

\* OCRService.__init__ (lines 235-239); no thread started, no upload received
OCRService ==
    [ _vl             |-> FALSE,
      _warmup_started |-> FALSE,
      _warmup_error   |-> NoError,
      _lock           |-> "free",
      threads         |-> <<>>,
      uploads         |-> [u \in Uploads |-> NoUpload] ]

\* lines 241-245
is_ready(service) == service._vl
get_warmup_error(service) == service._warmup_error

\* warmup_async starting a thread whenever it is called
warmup_async_unchecked(service) ==
    [service EXCEPT !._warmup_started = TRUE,
                    !.threads = Append(@, "started")]

\* lines 247-263: warmup_async, once it has the lock: the flag is tested and
\* set inside the lock, the thread "ocr-warmup" is started after it
warmup_async(service) ==
    IF service._warmup_started THEN service
    ELSE [service EXCEPT !._warmup_started = TRUE,
                         !.threads = Append(@, "started")]

-----------------------------------------------------------------------------
(* Initial state: the service has just started *)

Init ==
    /\ sessions = [id \in SessionIds |-> NoSession]
    /\ turns = [i \in Slots |-> NoTurn]
    /\ last = NoResponse
    /\ hist = [id \in SessionIds |-> NoHistory]
    /\ store = EmptyDb
    /\ lock = Unlocked
    /\ ocr = OCRService

-----------------------------------------------------------------------------
(* /analyze-form: create the session (analyze.py lines 279-326) *)

\* lines 310-319: the fields of the session state, built from the validated
\* fields
SessionFormField(field) ==
    [ field_id       |-> field.field_id,
      label          |-> field.label,
      bbox           |-> field.bbox,
      input_mode     |-> field.input_mode,
      write_language |-> field.write_language ]

\* lines 329-335: the response, with the session id it announces
UploadFormResponse(session_id, image_width, image_height, fields) ==
    [ step         |-> "analyze",
      session_id   |-> session_id,
      image_width  |-> image_width,
      image_height |-> image_height,
      fields       |-> fields ]

\* The session id is the fresh uuid4 of store.create_session, which takes
\* the store's lock for the INSERT.
AnalyzeForm(session_id, n, first) ==
    LET validated_fields == Catalog(n, first)
        session_fields ==
            [k \in 1..Len(validated_fields) |-> SessionFormField(validated_fields[k])]
    IN  /\ sessions[session_id] = NoSession
        /\ lock = Unlocked
        /\ store' = store_create_session(store, session_id, validated_fields,
                                         ImageWidth, ImageHeight)
        /\ sessions' = [sessions EXCEPT ![session_id] =
                SessionState(session_id, session_fields, ImageWidth, ImageHeight)
                    @@ LanguageField]
        /\ last' = UploadFormResponse(session_id, ImageWidth, ImageHeight,
                                      validated_fields)
        /\ UNCHANGED <<turns, hist, lock, ocr>>

(* /stt: the first detected language sticks (stt.py lines 67-83) *)
\* The handler awaits the speech recognition first; what follows the await
\* runs in one piece, with the language the recognition reported.
Stt(session_id, detected_language) ==
    LET session == get_session(sessions, session_id)
        existing_session_lang ==
            IF session = NoSession THEN NoLanguage ELSE session.detected_language
        existing_db_lang == StoredLanguage(sessions, session_id)
    IN  /\ sessions' =
            IF /\ should_set(existing_session_lang, existing_db_lang)
               /\ detected_language # NoLanguage
               /\ detected_language # "unknown"
            THEN set_language(sessions, session_id, detected_language)
            ELSE sessions
        /\ last' = SttResponse(session_id, detected_language,
                               existing_session_lang,
                               resolved_language(detected_language,
                                                 existing_session_lang,
                                                 existing_db_lang, FormLanguage))
        /\ UNCHANGED <<turns, hist, store, lock, ocr>>

-----------------------------------------------------------------------------
(* /chat (chat.py lines 48-235) *)

\* A client sends a request; it waits for the event loop to run its handler.
Send(i, session_id, req) ==
    /\ turns[i] = NoTurn
    /\ \A j \in Slots : j < i => turns[j] # NoTurn
    /\ turns' = [turns EXCEPT ![i] = Arrival(session_id, req)]
    /\ last' = NoResponse
    /\ UNCHANGED <<sessions, hist, store, lock, ocr>>

\* What the validation of a request body made of its `event`.
Validated(session_id, event, req) ==
    [ step       |-> "request",
      session_id |-> session_id,
      raw_event  |-> event,
      event      |-> req.event ]

\* A client sends a request body; it is validated into a ChatRequest
\* (models.py lines 34-57) before the handler is called.
Receive(i, session_id, event, user_text) ==
    /\ turns[i] = NoTurn
    /\ \A j \in Slots : j < i => turns[j] # NoTurn
    /\ turns' = [turns EXCEPT ![i] =
            Arrival(session_id, ChatRequest(event, user_text))]
    /\ last' = Validated(session_id, event, ChatRequest(event, user_text))
    /\ UNCHANGED <<sessions, hist, store, lock, ocr>>

\* The requests that are valid for a session in the state it is in: a skip
\* at any time, a spoken value that is no confirmation word while the
\* session asks for input, the confirmation while it waits for one.
ValidRequests(state) ==
    { req \in Requests :
        \/ req.event = "SKIP_FIELD"
        \/ /\ req.event = "USER_SPOKE"
           /\ state.phase = ASK_INPUT
           /\ RequestText(req) # <<>>
           /\ EffectiveEvent(req) = "USER_SPOKE"
        \/ /\ req.event = "CONFIRM_DONE"
           /\ state.phase = AWAIT_CONFIRMATION }

\* A user works through the form: while the session is not complete they
\* send a request that is valid for its state, and the event is recorded;
\* once it is complete they send anything.
UserTurn(i, session_id, req) ==
    LET state == get_session(sessions, session_id) IN
    /\ state # NoSession
    /\ turns[i] = NoTurn
    /\ IF has_more_fields(sessions, session_id)
       THEN /\ req \in ValidRequests(state)
            /\ Len(hist[session_id].sent) < 2 * MaxFields
            /\ hist' = [hist EXCEPT ![session_id].sent = Append(@, req.event)]
       ELSE hist' = hist
    /\ turns' = [turns EXCEPT ![i] = Arrival(session_id, req)]
    /\ last' = NoResponse
    /\ UNCHANGED <<sessions, store, lock, ocr>>

Arrived(i) == turns[i] # NoTurn /\ turns[i].pc = "arrived"
SuspendedIn(i, pc) == turns[i] # NoTurn /\ turns[i].pc = pc

\* a lookup that makes up a fresh one-field session when it finds none
LoadedOrFresh(i) ==
    LET state == get_session(sessions, turns[i].session_id) IN
    IF state = NoSession
    THEN SessionState(turns[i].session_id, Catalog(1, 1), ImageWidth, ImageHeight)
            @@ LanguageField
    ELSE state

\* lines 62-69: the state the handler loads, and the language it answers in
LoadedState(i) == get_session(sessions, turns[i].session_id)
UserLang(state) == normalize_language(state.detected_language)
CurrentField(i) == get_current_field(sessions, turns[i].session_id)

\* lines 80-91 passed: the session has a current field; dispatch on the
\* phase and the event
Dispatch(i, phase, event) ==
    /\ Arrived(i)
    /\ LoadedState(i) # NoSession
    /\ has_more_fields(sessions, turns[i].session_id)
    /\ CurrentField(i) # NoField
    /\ EffectiveEvent(turns[i]) = event
    /\ LoadedState(i).phase \in phase

\* The slots after the turn in slot i has ended.  `wrote`: it changed the
\* session, which the handlers suspended on that session do not see;
\* `advanced`: the event with which it moved to the next field, or "".
Others(i, wrote, advanced) ==
    [j \in Slots |->
        IF j = i THEN NoTurn
        ELSE IF turns[j] = NoTurn \/ turns[j].session_id # turns[i].session_id
        THEN turns[j]
        ELSE IF turns[j].pc = "arrived"
        THEN IF advanced = "" THEN turns[j]
             ELSE [turns[j] EXCEPT !.passed_by = @ \cup {advanced}]
        ELSE IF wrote THEN [turns[j] EXCEPT !.changed_since_load = TRUE]
        ELSE turns[j]]

\* The handler returns (or raises): the response goes out, the slot is free.
Reply(i, response) ==
    /\ last' = response
    /\ UNCHANGED <<store, lock, ocr>>
    /\ turns' = Others(i, sessions' # sessions,
                       IF response.step \in {"skip", "confirm"}
                       THEN response.event ELSE "")

\* lines 63-65: unknown session
ChatNotFound(i) ==
    /\ Arrived(i)
    /\ LoadedState(i) = NoSession
    /\ UNCHANGED <<sessions, hist>>
    /\ Reply(i, Response("not_found", turns[i], NoField, NoSession, 404,
                         AssistantText("Session not found", <<>>, "en"),
                         NoAction))

\* lines 71-83: no field left: the form is complete (or, were a session to
\* have more fields and no current one, "No current field")
ChatComplete(i) ==
    /\ Arrived(i)
    /\ LoadedState(i) # NoSession
    /\ ~has_more_fields(sessions, turns[i].session_id) \/ CurrentField(i) = NoField
    /\ UNCHANGED <<sessions, hist>>
    /\ IF ~has_more_fields(sessions, turns[i].session_id)
       THEN \E lang \in TextLanguages(UserLang(LoadedState(i))) :
              Reply(i, Response("complete", turns[i], NoField, LoadedState(i), 200,
                    AssistantText("You have completed the form. Thank you!",
                                  <<>>, lang),
                    NoAction))
       ELSE Reply(i, Response("no_current_field", turns[i], NoField,
                    LoadedState(i), 500,
                    AssistantText("No current field", <<>>, "en"), NoAction))

\* lines 93-118: SKIP_FIELD, in either phase
ChatSkip(i) ==
    /\ Dispatch(i, Phase, "SKIP_FIELD")
    /\ LET sid == turns[i].session_id
           advanced == advance_to_next_field(sessions, sid)
           next_field == get_current_field(advanced, sid)
       IN  /\ hist' = hist
           /\ IF ~has_more_fields(advanced, sid)
              THEN /\ sessions' = advanced
                   /\ \E lang \in TextLanguages(UserLang(LoadedState(i))) :
                        Reply(i, Response("skip", turns[i], CurrentField(i),
                            LoadedState(i), 200,
                            AssistantText("You skipped the last field. The form is complete.",
                                          <<>>, lang),
                            NoAction))
              ELSE IF next_field = NoField
              THEN /\ sessions' = advanced
                   /\ Reply(i, Response("skip", turns[i], CurrentField(i),
                            LoadedState(i), 500,
                            AssistantText("No next field after skip", <<>>, "en"),
                            NoAction))
              ELSE /\ sessions' = set_phase(advanced, sid, ASK_INPUT)
                   /\ \E lang \in TextLanguages(UserLang(LoadedState(i))) :
                        Reply(i, Response("skip", turns[i], CurrentField(i),
                            LoadedState(i), 200,
                            AssistantText("Skipped. Please provide the value for {label}.",
                                          <<next_field.label>>, lang),
                            NoAction))

\* an ASK_INPUT branch that takes CONFIRM_DONE as the confirmation of the
\* field and moves on
ChatInvalidEventAdvancing(i) ==
    /\ Dispatch(i, {ASK_INPUT}, "CONFIRM_DONE")
    /\ sessions' = advance_to_next_field(sessions, turns[i].session_id)
    /\ hist' = hist
    /\ \E lang \in TextLanguages(UserLang(LoadedState(i))) :
          Reply(i, Response("invalid_event", turns[i], CurrentField(i),
                LoadedState(i), 200,
                AssistantText("Please speak the value for {label}.",
                              <<CurrentField(i).label>>, lang),
                NoAction))

\* lines 124-134: ASK_INPUT, an event other than USER_SPOKE
ChatInvalidEvent(i) ==
    /\ Dispatch(i, {ASK_INPUT}, "CONFIRM_DONE")
    /\ UNCHANGED <<sessions, hist>>
    /\ \E lang \in TextLanguages(UserLang(LoadedState(i))) :
          Reply(i, Response("invalid_event", turns[i], CurrentField(i),
                LoadedState(i), 200,
                AssistantText("Please speak the value for {label}.",
                              <<CurrentField(i).label>>, lang),
                NoAction))

\* lines 136-137: ASK_INPUT, USER_SPOKE without text
ChatMissingText(i) ==
    /\ Dispatch(i, {ASK_INPUT}, "USER_SPOKE")
    /\ RequestText(turns[i]) = <<>>
    /\ UNCHANGED <<sessions, hist>>
    /\ Reply(i, Response("missing_text", turns[i], CurrentField(i),
                LoadedState(i), 400,
                AssistantText("user_text required for USER_SPOKE event", <<>>, "en"),
                NoAction))

\* lines 139-144: ASK_INPUT, USER_SPOKE with text: the handler suspends in
\* sarvam.extract_field_value, holding the field and the text it read
ChatExtract(i) ==
    /\ Dispatch(i, {ASK_INPUT}, "USER_SPOKE")
    /\ RequestText(turns[i]) # <<>>
    /\ turns' = [turns EXCEPT ![i] =
            Suspended("extracting", turns[i], CurrentField(i),
                      UserLang(LoadedState(i)))]
    /\ last' = NoResponse
    /\ UNCHANGED <<sessions, hist, store, lock, ocr>>

\* SarvamService.extract_field_value: the text itself (no API key), or
\* whatever the model answers
ExtractedValues(user_text) == {user_text, OtherValue}

\* lines 146-178: the extraction returned; store, switch phase, answer
ChatExtractReturn(i, extracted_value) ==
    /\ SuspendedIn(i, "extracting")
    /\ extracted_value \in ExtractedValues(turns[i].text)
    /\ LET sid == turns[i].session_id
           current_field == turns[i].current_field
           stored == store_value(sessions, sid, current_field.field_id,
                                 extracted_value)
           action == DrawGuideAction(current_field, extracted_value, sessions[sid])
       IN  /\ sessions' = set_phase(stored, sid, AWAIT_CONFIRMATION)
           /\ hist' = [hist EXCEPT ![sid].guide = action]
           /\ \E lang \in TextLanguages(turns[i].user_lang) :
                Reply(i, Response("extract_return", turns[i], current_field,
                      sessions[sid], 200,
                      AssistantText("Please write {value} inside the highlighted box.",
                                    extracted_value, lang),
                      action))

\* sarvam_service.py lines 103-104: the extraction raised; nothing in
\* chat.py catches it
ChatExtractFail(i) ==
    /\ SuspendedIn(i, "extracting")
    /\ UNCHANGED <<sessions, hist>>
    /\ Reply(i, Response("extract_fail", turns[i], turns[i].current_field,
                         sessions[turns[i].session_id], 500,
                         AssistantText("Internal Server Error", <<>>, "en"),
                         NoAction))

\* lines 180-199: AWAIT_CONFIRMATION, an event other than CONFIRM_DONE.  The
\* text is translated first (line 185), the action is built after (line 190).
ReemitAction(state, current_field) ==
    DrawGuideAction(current_field,
                    DictGet(state.collected_values, current_field.field_id, <<>>),
                    state)

ReemitText(lang) ==
    AssistantText("Please write it down first, then press the 'Done Writing' button.",
                  <<>>, lang)

\* a re-emit that, when the text needs no translation, moves to the next
\* field
ChatReemitAdvancing(i) ==
    /\ Dispatch(i, {AWAIT_CONFIRMATION}, "USER_SPOKE")
    /\ UserLang(LoadedState(i)) = "en"
    /\ sessions' = advance_to_next_field(sessions, turns[i].session_id)
    /\ hist' = hist
    /\ Reply(i, Response("reemit", turns[i], CurrentField(i), LoadedState(i), 200,
                         ReemitText("en"),
                         ReemitAction(LoadedState(i), CurrentField(i))))

\* ... the user's language is English: _translate_if_needed does not suspend
ChatReemit(i) ==
    /\ Dispatch(i, {AWAIT_CONFIRMATION}, "USER_SPOKE")
    /\ UserLang(LoadedState(i)) = "en"
    /\ UNCHANGED <<sessions, hist>>
    /\ Reply(i, Response("reemit", turns[i], CurrentField(i), LoadedState(i), 200,
                         ReemitText("en"),
                         ReemitAction(LoadedState(i), CurrentField(i))))

\* ... another language: the handler suspends in the translation call
ChatReemitTranslate(i) ==
    /\ Dispatch(i, {AWAIT_CONFIRMATION}, "USER_SPOKE")
    /\ UserLang(LoadedState(i)) # "en"
    /\ turns' = [turns EXCEPT ![i] =
            Suspended("translating", turns[i], CurrentField(i),
                      UserLang(LoadedState(i)))]
    /\ last' = NoResponse
    /\ UNCHANGED <<sessions, hist, store, lock, ocr>>

\* ... the translation returned or failed; the action reads the session now
ChatReemitReturn(i) ==
    /\ SuspendedIn(i, "translating")
    /\ UNCHANGED <<sessions, hist>>
    /\ \E lang \in TextLanguages(turns[i].user_lang) :
          Reply(i, Response("reemit", turns[i], turns[i].current_field,
                            sessions[turns[i].session_id], 200,
                            ReemitText(lang),
                            ReemitAction(sessions[turns[i].session_id],
                                         turns[i].current_field)))

\* a CONFIRM_DONE branch that advances only when its text was translated
ChatConfirmUnlessUntranslated(i) ==
    /\ Dispatch(i, {AWAIT_CONFIRMATION}, "CONFIRM_DONE")
    /\ LET sid == turns[i].session_id
           advanced == advance_to_next_field(sessions, sid)
           next_field == get_current_field(advanced, sid)
       IN  /\ hist' = hist
           /\ \E lang \in TextLanguages(UserLang(LoadedState(i))) :
                /\ sessions' = IF lang = UserLang(LoadedState(i))
                               THEN advanced ELSE sessions
                /\ Reply(i, Response("confirm", turns[i], CurrentField(i),
                      LoadedState(i), 200,
                      IF ~has_more_fields(advanced, sid)
                      THEN AssistantText("Great job! The form is complete.",
                                         <<>>, lang)
                      ELSE IF next_field = NoField
                      THEN AssistantText("The form is complete.", <<>>, lang)
                      ELSE AssistantText("Now please say the value for {label}.",
                                         <<next_field.label>>, lang),
                      NoAction))

\* lines 201-232: AWAIT_CONFIRMATION, CONFIRM_DONE
ChatConfirm(i) ==
    /\ Dispatch(i, {AWAIT_CONFIRMATION}, "CONFIRM_DONE")
    /\ LET sid == turns[i].session_id
           advanced == advance_to_next_field(sessions, sid)
           next_field == get_current_field(advanced, sid)
       IN  /\ sessions' = advanced
           /\ hist' = hist
           /\ \E lang \in TextLanguages(UserLang(LoadedState(i))) :
                Reply(i, Response("confirm", turns[i], CurrentField(i),
                      LoadedState(i), 200,
                      IF ~has_more_fields(advanced, sid)
                      THEN AssistantText("Great job! The form is complete.",
                                         <<>>, lang)
                      ELSE IF next_field = NoField
                      THEN AssistantText("The form is complete.", <<>>, lang)
                      ELSE AssistantText("Now please say the value for {label}.",
                                         <<next_field.label>>, lang),
                      NoAction))

-----------------------------------------------------------------------------
(* The service *)

Next ==
    \/ \E id \in SessionIds, n \in 1..MaxFields, first \in 1..Len(FieldKinds) :
          AnalyzeForm(id, n, first)
    \/ \E id \in SessionIds, lang \in DetectedLanguages : Stt(id, lang)
    \/ \E i \in Slots, id \in SessionIds, req \in Requests : Send(i, id, req)
    \/ \E i \in Slots : ChatNotFound(i)
    \/ \E i \in Slots : ChatComplete(i)
    \/ \E i \in Slots : ChatSkip(i)
    \/ \E i \in Slots : ChatInvalidEvent(i)
    \/ \E i \in Slots : ChatMissingText(i)
    \/ \E i \in Slots : ChatExtract(i)
    \/ \E i \in Slots, value \in UserTexts \cup {OtherValue} :
          ChatExtractReturn(i, Strip(value))
    \/ \E i \in Slots : ChatExtractFail(i)
    \/ \E i \in Slots : ChatReemit(i)
    \/ \E i \in Slots : ChatReemitTranslate(i)
    \/ \E i \in Slots : ChatReemitReturn(i)
    \/ \E i \in Slots : ChatConfirm(i)

Spec == Init /\ [][Next]_vars

-----------------------------------------------------------------------------
(* The service answering one turn at a time, the requests drawn from wider *)
(* sets: every confirmation word and variants of them in case and          *)
(* surrounding whitespace, "next", a value with a run of whitespace and    *)
(* digits in it, and a session id that no /analyze-form has returned.      *)

SpokenTexts ==
    confirmation_words \cup
    { <<>>,
      <<" "," ","D","o","n","e"," "," ">>,
      <<"D","O","N","E">>,
      <<"\t","o","K","\n">>,
      <<"n","e","x","t">>,
      <<"a"," "," ","9","8">> }

UnknownIds == {"does-not-exist"}

SequentialRequests ==
    [event : {"USER_SPOKE"}, user_text : SpokenTexts]
      \cup [event : {"CONFIRM_DONE", "SKIP_FIELD"}, user_text : {<<>>}]

NextSequential ==
    \/ \E id \in SessionIds, n \in 1..MaxFields, first \in 1..Len(FieldKinds) :
          AnalyzeForm(id, n, first)
    \/ \E id \in SessionIds \cup UnknownIds, req \in SequentialRequests :
          Send(1, id, req)
    \/ ChatNotFound(1)
    \/ ChatComplete(1)
    \/ ChatSkip(1)
    \/ ChatInvalidEvent(1)
    \/ ChatMissingText(1)
    \/ ChatExtract(1)
    \/ \E value \in SpokenTexts \cup {OtherValue} :
          ChatExtractReturn(1, Strip(value))
    \/ ChatExtractFail(1)
    \/ ChatReemit(1)
    \/ ChatConfirm(1)

SpecSequential == Init /\ [][NextSequential]_vars

-----------------------------------------------------------------------------
(* The service answering one turn at a time between speech recognitions    *)
(* that report any of the recognized languages, for the session and for a  *)
(* session id that does not exist.                                         *)

NextLanguage ==
    \/ \E id \in SessionIds, n \in 1..MaxFields, first \in 1..Len(FieldKinds) :
          AnalyzeForm(id, n, first)
    \/ \E id \in SessionIds \cup UnknownIds, lang \in RecognizedLanguages :
          Stt(id, lang)
    \/ \E id \in SessionIds, req \in Requests : Send(1, id, req)
    \/ ChatNotFound(1)
    \/ ChatComplete(1)
    \/ ChatSkip(1)
    \/ ChatInvalidEvent(1)
    \/ ChatMissingText(1)
    \/ ChatExtract(1)
    \/ \E value \in UserTexts \cup {OtherValue} :
          ChatExtractReturn(1, Strip(value))
    \/ ChatExtractFail(1)
    \/ ChatReemit(1)
    \/ ChatReemitTranslate(1)
    \/ ChatReemitReturn(1)
    \/ ChatConfirm(1)

SpecLanguage == Init /\ [][NextLanguage]_vars

-----------------------------------------------------------------------------
(* The service answering one turn at a time, the `event` of each request   *)
(* body written as clients write it: missing, empty, the three events and  *)
(* their aliases in several spellings, and texts that are no event.        *)

\* spellings of USER_SPOKE and its alias
RawUserSpoke ==
    { <<"U","S","E","R","_","S","P","O","K","E">>,
      <<"u","s","e","r">>,
      <<"\t","U","s","e","r","\n">>,
      <<"u","s","e","r"," ","s","p","o","k","e">> }

\* spellings of CONFIRM_DONE and its aliases
RawConfirm ==
    { <<"C","O","N","F","I","R","M","_","D","O","N","E">>,
      <<" ","C","o","n","f","i","r","m"," ">>,
      <<"c","o","n","f","i","r","m","a","t","i","o","n">>,
      <<"C","o","n","f","i","r","m"," ","D","o","n","e">> }

\* spellings of SKIP_FIELD and its aliases
RawSkip ==
    { <<"S","K","I","P","_","F","I","E","L","D">>,
      <<"s","k","i","p">>,
      <<"S","k","i","p","F","i","e","l","d">>,
      <<"s","k","i","p"," ","f","i","e","l","d">>,
      <<" ","S","k","i","p","_","F","i","e","l","d">> }

\* texts that are no event
RawUnrecognized ==
    { <<"d","o","n","e">>,
      <<"s","k","i","p","\t","f","i","e","l","d">>,
      <<" ">> }

RawEvents ==
    {NoEvent, <<>>} \cup RawUserSpoke \cup RawConfirm \cup RawSkip
        \cup RawUnrecognized

NextEvents ==
    \/ \E id \in SessionIds, n \in 1..MaxFields, first \in 1..Len(FieldKinds) :
          AnalyzeForm(id, n, first)
    \/ \E id \in SessionIds, event \in RawEvents, user_text \in UserTexts :
          Receive(1, id, event, user_text)
    \/ ChatNotFound(1)
    \/ ChatComplete(1)
    \/ ChatSkip(1)
    \/ ChatInvalidEvent(1)
    \/ ChatMissingText(1)
    \/ ChatExtract(1)
    \/ \E value \in UserTexts \cup {OtherValue} :
          ChatExtractReturn(1, Strip(value))
    \/ ChatExtractFail(1)
    \/ ChatReemit(1)
    \/ ChatConfirm(1)

SpecEvents == Init /\ [][NextEvents]_vars

-----------------------------------------------------------------------------
(* The service with a user who works through the form one turn at a time.  *)
(* The user keeps sending, the event loop runs a handler that is ready,    *)
(* and the extraction call returns.                                        *)

UserSends == \E id \in SessionIds, req \in Requests : UserTurn(1, id, req)

HandlerRuns == ChatComplete(1) \/ ChatSkip(1) \/ ChatExtract(1) \/ ChatConfirm(1)

ExtractionReturns ==
    \E value \in UserTexts \cup {OtherValue} : ChatExtractReturn(1, Strip(value))

NextLive ==
    \/ \E id \in SessionIds, n \in 1..MaxFields, first \in 1..Len(FieldKinds) :
          AnalyzeForm(id, n, first)
    \/ UserSends
    \/ HandlerRuns
    \/ ExtractionReturns

SpecLive ==
    /\ Init /\ [][NextLive]_vars
    /\ WF_vars(UserSends)
    /\ WF_vars(HandlerRuns)
    /\ WF_vars(ExtractionReturns)

-----------------------------------------------------------------------------
(* Two sessions created from the same form, which get the same requests,   *)
(* one copy to each, while speech recognitions set their languages apart.  *)
(* The extraction call answers the same for the same arguments.            *)

FirstTwin == "s1"
SecondTwin == "s2"
TwinIds == {FirstTwin, SecondTwin}

InitTwin ==
    /\ sessions = [id \in TwinIds |-> NoSession]
    /\ turns = [i \in Slots |-> NoTurn]
    /\ last = NoResponse
    /\ hist = [id \in TwinIds |-> NoHistory]
    /\ store = EmptyDb
    /\ lock = Unlocked
    /\ ocr = OCRService

\* /analyze-form for the same form again
AnalyzeTwin(n, first) ==
    /\ sessions[FirstTwin] # NoSession
    /\ \A i \in Slots : turns[i] = NoTurn
    /\ sessions[FirstTwin].current_field_index = 0
    /\ sessions[FirstTwin].collected_values = <<>>
    /\ AnalyzeForm(SecondTwin, n, first)
    /\ sessions'[SecondTwin].fields = sessions[FirstTwin].fields

\* the same request is sent to both sessions
SendBoth(req) ==
    /\ \A id \in TwinIds : sessions[id] # NoSession
    /\ \A i \in Slots : turns[i] = NoTurn
    /\ turns' = [turns EXCEPT ![1] = Arrival(FirstTwin, req),
                              ![2] = Arrival(SecondTwin, req)]
    /\ last' = NoResponse
    /\ UNCHANGED <<sessions, hist, store, lock, ocr>>

\* sarvam.extract_field_value(field_label, user_text, write_language): one
\* answer for one triple of arguments
ModelAnswer(field_label, user_text, write_language) ==
    IF write_language = "numeric" THEN OtherValue ELSE user_text

TwinExtractReturn(i) ==
    /\ SuspendedIn(i, "extracting")
    /\ ChatExtractReturn(i, ModelAnswer(turns[i].current_field.label,
                                        turns[i].text,
                                        turns[i].current_field.write_language))

NextTwin ==
    \/ \E n \in 1..MaxFields, first \in 1..Len(FieldKinds) :
          AnalyzeForm(FirstTwin, n, first)
    \/ \E n \in 1..MaxFields, first \in 1..Len(FieldKinds) :
          AnalyzeTwin(n, first)
    \/ \E id \in TwinIds, lang \in DetectedLanguages : Stt(id, lang)
    \/ \E req \in Requests : SendBoth(req)
    \/ \E i \in 1..2 : ChatComplete(i)
    \/ \E i \in 1..2 : ChatSkip(i)
    \/ \E i \in 1..2 : ChatInvalidEvent(i)
    \/ \E i \in 1..2 : ChatMissingText(i)
    \/ \E i \in 1..2 : ChatExtract(i)
    \/ \E i \in 1..2 : TwinExtractReturn(i)
    \/ \E i \in 1..2 : ChatReemit(i)
    \/ \E i \in 1..2 : ChatReemitTranslate(i)
    \/ \E i \in 1..2 : ChatReemitReturn(i)
    \/ \E i \in 1..2 : ChatConfirm(i)

SpecTwin == InitTwin /\ [][NextTwin]_vars

-----------------------------------------------------------------------------
(* The store with callers of its operations.  Every operation runs inside  *)
(* _with_db (storage_service.py lines 74-82): the caller takes the store's  *)
(* one lock, runs the operation on a fresh connection and gives the lock   *)
(* back; a caller that finds the lock taken waits.                         *)

\* longest message log
MaxMessages == 1

\* the session ids the callers pass
StoreIds == SessionIds \cup UnknownIds

StoreOperations ==
    {"get_session", "append_message", "advance_field",
     "update_filled_field", "update_fields"}

\* line 76: a caller enters _with_db and takes the lock
WithDb(name, session_id) ==
    /\ lock = Unlocked
    /\ name = "append_message" => Len(store.messages) < MaxMessages
    /\ name = "advance_field" =>
          IF SelectRow(store, session_id) = NoRow THEN TRUE
          ELSE SelectRow(store, session_id).current_field_index < MaxFields
    /\ lock' = [name |-> name, session_id |-> session_id]
    /\ last' = NoResponse
    /\ UNCHANGED <<sessions, turns, hist, store, ocr>>

\* lines 80-82: the operation has run; the lock is given back
Release(db, response) ==
    /\ store' = db
    /\ lock' = Unlocked
    /\ last' = response
    /\ UNCHANGED <<sessions, turns, hist, ocr>>

\* What get_session returned, with the id it was asked for and the message
\* log of that session in the database at that moment.
GetSessionResponse(session_id, result) ==
    [ step       |-> "get_session",
      session_id |-> session_id,
      result     |-> result,
      messages   |-> SelectSeq(store.messages,
                               LAMBDA m : m.session_id = session_id) ]

GetSession ==
    /\ lock.name = "get_session"
    /\ Release(store, GetSessionResponse(lock.session_id,
                            store_get_session(store, lock.session_id)))

AppendMessage(role, content) ==
    /\ lock.name = "append_message"
    /\ Release(append_message(store, lock.session_id, role, content), NoResponse)

AdvanceField ==
    /\ lock.name = "advance_field"
    /\ Release(advance_field(store, lock.session_id), NoResponse)

UpdateFilledField(field_label, value) ==
    /\ lock.name = "update_filled_field"
    /\ Release(update_filled_field(store, lock.session_id, field_label, value),
               NoResponse)

UpdateFields(fields) ==
    /\ lock.name = "update_fields"
    /\ Release(update_fields(store, lock.session_id, fields), NoResponse)

NextStore ==
    \/ \E id \in SessionIds, n \in 1..MaxFields, first \in 1..Len(FieldKinds) :
          AnalyzeForm(id, n, first)
    \/ \E name \in StoreOperations, id \in StoreIds : WithDb(name, id)
    \/ GetSession
    \/ AppendMessage("user", OtherValue)
    \/ AdvanceField
    \/ \E label \in {"Name"}, value \in {OtherValue} : UpdateFilledField(label, value)
    \/ \E first \in 1..Len(FieldKinds) : UpdateFields(Catalog(1, first))
    \/ \E id \in SessionIds, req \in Requests : Send(1, id, req)
    \/ ChatComplete(1)
    \/ ChatSkip(1)
    \/ ChatInvalidEvent(1)
    \/ ChatMissingText(1)
    \/ ChatExtract(1)
    \/ \E value \in UserTexts \cup {OtherValue} :
          ChatExtractReturn(1, Strip(value))
    \/ ChatExtractFail(1)
    \/ ChatReemit(1)
    \/ ChatConfirm(1)

SpecStore == Init /\ [][NextStore]_vars

-----------------------------------------------------------------------------
(* /upload-form (upload.py lines 10-43) and the warm-up thread.  The       *)
(* handler is an `async def`: the uploads run on the event loop one at a   *)
(* time up to `await file.read()`; the warm-up runs in a thread of its own. *)
(* warmup_async takes OCRService._lock without awaiting, so while the      *)
(* warm-up thread holds the lock (for the whole model load) an upload that *)
(* calls warmup_async blocks, and the event loop with it.                  *)

ContentTypes == {"image/png", "text/plain"}
Files == {"empty", "not an image", "form"}

\* an upload waiting for the event loop to run its handler
UploadArrival(content_type, file) ==
    [pc |-> "arrived", content_type |-> content_type, file |-> file]

\* the fresh uuid4 of store.create_session
UploadSessionId(u) == "upload-" \o ToString(u)

\* the detail of an HTTPException
Detail(msg, err) == [msg |-> msg, err |-> err]

\* One response of /upload-form.  ready is history: what is_ready() answered
\* at line 16 (FALSE when the check was not reached); ocr_ran, whether the
\* handler called run_ocr.
UploadResponse(u, status, detail, ready, ocr_ran) ==
    [ step    |-> "upload",
      upload  |-> u,
      content_type |-> ocr.uploads[u].content_type,
      status  |-> status,
      detail  |-> detail,
      ready   |-> ready,
      ocr_ran |-> ocr_ran ]

\* no handler is blocked in `with self._lock`: the event loop runs
LoopRuns == \A u \in Uploads : ocr.uploads[u].pc # "blocked"

UploadAt(u, pc) == ocr.uploads[u].pc = pc

\* the handler of upload u ends
UploadEnds(service, u, response) ==
    /\ ocr' = [service EXCEPT !.uploads[u] = [@ EXCEPT !.pc = "answered"]]
    /\ last' = response
    /\ UNCHANGED <<sessions, turns, hist, lock>>

\* a client sends an upload
UploadArrives(u, content_type, file) ==
    /\ UploadAt(u, "none")
    /\ \A v \in Uploads : v < u => ~UploadAt(v, "none")
    /\ ocr' = [ocr EXCEPT !.uploads[u] = UploadArrival(content_type, file)]
    /\ last' = NoResponse
    /\ UNCHANGED <<sessions, turns, hist, store, lock>>

\* lines 13-14: not an image
UploadRejected(u) ==
    /\ UploadAt(u, "arrived") /\ LoopRuns
    /\ ocr.uploads[u].content_type # "image/png"
    /\ store' = store
    /\ UploadEnds(ocr, u, UploadResponse(u, 400,
            Detail("Please upload an image file.", NoError), FALSE, FALSE))

\* lines 17-22, from the moment warmup_async has the lock
WarmupAndRefuse(u) ==
    LET service == warmup_async(ocr)
        err == get_warmup_error(service)
    IN  /\ store' = store
        /\ UploadEnds(service, u, UploadResponse(u, 503,
                IF err # NoError
                THEN Detail("OCR warmup failed: {err}", err)
                ELSE Detail("OCR model is warming up. Retry in 30-120 seconds.",
                            NoError),
                FALSE, FALSE))

\* lines 16-22: the model is not ready; warmup_async waits for the lock when
\* the warm-up thread holds it
UploadNotReady(u) ==
    /\ UploadAt(u, "arrived") /\ LoopRuns
    /\ ocr.uploads[u].content_type = "image/png"
    /\ ~is_ready(ocr)
    /\ IF ocr._lock = "free"
       THEN WarmupAndRefuse(u)
       ELSE /\ ocr' = [ocr EXCEPT !.uploads[u] = [@ EXCEPT !.pc = "blocked"]]
            /\ last' = NoResponse
            /\ UNCHANGED <<sessions, turns, hist, store, lock>>

\* ... the lock is free again
UploadUnblocked(u) ==
    /\ UploadAt(u, "blocked")
    /\ ocr._lock = "free"
    /\ WarmupAndRefuse(u)

\* lines 16, 24: the model is ready; the handler awaits file.read()
UploadReady(u) ==
    /\ UploadAt(u, "arrived") /\ LoopRuns
    /\ ocr.uploads[u].content_type = "image/png"
    /\ is_ready(ocr)
    /\ ocr' = [ocr EXCEPT !.uploads[u] = [@ EXCEPT !.pc = "reading"]]
    /\ last' = NoResponse
    /\ UNCHANGED <<sessions, turns, hist, store, lock>>

\* lines 25-43: the file is read.  An empty file and one that is no image
\* are refused; otherwise run_ocr runs the pipeline that _get_vl returns
\* (ocr_service.py lines 300-301, 364), the store gets the session, and the
\* response, built without image_width and image_height (models.py lines
\* 28-29), fails its validation.
UploadRunsOcr(u, first) ==
    /\ UploadAt(u, "reading") /\ LoopRuns
    /\ IF ocr.uploads[u].file = "empty"
       THEN /\ store' = store
            /\ UploadEnds(ocr, u, UploadResponse(u, 400,
                    Detail("Empty upload.", NoError), TRUE, FALSE))
       ELSE IF ocr.uploads[u].file = "not an image"
       THEN /\ store' = store
            /\ UploadEnds(ocr, u, UploadResponse(u, 400,
                    Detail("Invalid image data", NoError), TRUE, TRUE))
       ELSE /\ lock = Unlocked
            /\ store' = store_create_session(store, UploadSessionId(u),
                                             Catalog(1, first), 0, 0)
            /\ UploadEnds(ocr, u, UploadResponse(u, 500,
                    Detail("Internal Server Error", NoError), TRUE, TRUE))

WarmupAt(t, pc) == ocr.threads[t] = pc

\* a step of warm-up thread t
WarmupStep(service) ==
    /\ ocr' = service
    /\ last' = NoResponse
    /\ UNCHANGED <<sessions, turns, hist, store, lock>>

\* ocr_service.py lines 257, 300-309: _run calls _get_vl, which returns at
\* once when the model is there and takes the lock otherwise
WarmupTakesLock(t) ==
    /\ WarmupAt(t, "started")
    /\ IF is_ready(ocr)
       THEN WarmupStep([ocr EXCEPT !.threads[t] = "finished"])
       ELSE /\ ocr._lock = "free"
            /\ WarmupStep([ocr EXCEPT !._lock = "held",
                                      !.threads[t] = "locked"])

\* lines 310-329: inside the lock, the pipeline is built unless it is there
WarmupLoads(t) ==
    /\ WarmupAt(t, "locked")
    /\ WarmupStep([ocr EXCEPT !._vl = TRUE, !.threads[t] = "loaded"])

\* lines 331-341: the memory is tidied up and the lock released
WarmupReleases(t) ==
    /\ WarmupAt(t, "loaded")
    /\ WarmupStep([ocr EXCEPT !._lock = "free", !.threads[t] = "finished"])

\* lines 258-260: _get_vl raised, building the pipeline or tidying up; the
\* `with` releases the lock and _run records the error
WarmupFails(t) ==
    /\ ocr.threads[t] \in {"locked", "loaded"}
    /\ WarmupStep([ocr EXCEPT !._lock = "free",
                              !._warmup_error = WarmupError,
                              !.threads[t] = "finished"])

NextOcr ==
    \/ \E u \in Uploads, content_type \in ContentTypes, file \in Files :
          UploadArrives(u, content_type, file)
    \/ \E u \in Uploads : UploadRejected(u)
    \/ \E u \in Uploads : UploadNotReady(u)
    \/ \E u \in Uploads : UploadUnblocked(u)
    \/ \E u \in Uploads : UploadReady(u)
    \/ \E u \in Uploads, first \in 1..Len(FieldKinds) : UploadRunsOcr(u, first)
    \/ \E t \in 1..Len(ocr.threads) : WarmupTakesLock(t)
    \/ \E t \in 1..Len(ocr.threads) : WarmupLoads(t)
    \/ \E t \in 1..Len(ocr.threads) : WarmupReleases(t)
    \/ \E t \in 1..Len(ocr.threads) : WarmupFails(t)

SpecOcr == Init /\ [][NextOcr]_vars

-----------------------------------------------------------------------------
(* Reading a response.  `last` is the response of the step just taken, so  *)
(* the session it left is the session now.                                 *)

\* `last` is the response of a /chat turn
Answered ==
    last.step \notin {"none", "stt", "analyze", "get_session", "request",
                      "upload"}
Exists(id) == sessions[id] # NoSession
NumFields(id) == Len(sessions[id].fields)
IsComplete(id) == sessions[id].current_field_index = NumFields(id)

\* the session before and after the turn that `last` answers
Before == last.before
After == Core(sessions[last.session_id])

\* `last` answers a turn on an existing session that was not complete
OnOpenSession ==
    /\ Answered
    /\ Before # NoSession
    /\ Before.current_field_index < NumFields(last.session_id)

\* ... on a session that was complete
OnCompleteSession ==
    /\ Answered
    /\ Before # NoSession
    /\ Before.current_field_index = NumFields(last.session_id)

Advanced == After.current_field_index = Before.current_field_index + 1

\* after the turn the session asks for input on a field, or is complete
AsksInputOrComplete ==
    \/ IsComplete(last.session_id)
    \/ After.phase = ASK_INPUT

-----------------------------------------------------------------------------
(* C1-C10 *)

\* C1: in every reachable state of every session, after any sequence of
\* turns, 0 <= current_field_index <= len(fields).
C1_IndexInRange ==
    \A id \in SessionIds :
        Exists(id) =>
            /\ 0 <= sessions[id].current_field_index
            /\ sessions[id].current_field_index <= NumFields(id)

\* a turn has just advanced the session to len(fields)
C1_Witness ==
    /\ OnOpenSession /\ Advanced
    /\ IsComplete(last.session_id)

\* C2: turns on one session never interleave; in particular a turn never
\* writes a value or a phase that it decided from a state another turn has
\* since changed.
C2_NoWriteFromChangedState ==
    (Answered /\ last.resumed /\ After # Before) => ~last.changed_since_load

\* C3: a CONFIRM_DONE and a SKIP_FIELD both sent while the same field is
\* current do not both advance current_field_index.
C3_RaceAdvancesOnce ==
    (OnOpenSession /\ Advanced) =>
        /\ last.event = "SKIP_FIELD" => "CONFIRM_DONE" \notin last.passed_by
        /\ last.event = "CONFIRM_DONE" => "SKIP_FIELD" \notin last.passed_by

\* C4, as claimed: on a session that is not complete, a CONFIRM_DONE turn and
\* a SKIP_FIELD turn each increase current_field_index by exactly 1 and leave
\* phase = ASK_INPUT (or the session complete), in whichever phase the turn
\* arrives.
C4_ConfirmAndSkipAlwaysAdvance ==
    (OnOpenSession /\ last.event \in {"CONFIRM_DONE", "SKIP_FIELD"}) =>
        Advanced /\ AsksInputOrComplete

\* C4, amended: on a session that is not complete, a SKIP_FIELD turn in
\* either phase and a CONFIRM_DONE turn in phase AWAIT_CONFIRMATION increase
\* current_field_index by exactly 1 and leave phase = ASK_INPUT (or the
\* session complete); a CONFIRM_DONE turn in phase ASK_INPUT leaves
\* current_field_index, phase and collected_values unchanged.
C4_AdvanceExceptConfirmInAskInput ==
    /\ (OnOpenSession /\ last.event = "SKIP_FIELD") =>
            Advanced /\ AsksInputOrComplete
    /\ (OnOpenSession /\ last.event = "CONFIRM_DONE"
            /\ Before.phase = AWAIT_CONFIRMATION) =>
            Advanced /\ AsksInputOrComplete
    /\ (OnOpenSession /\ last.event = "CONFIRM_DONE"
            /\ Before.phase = ASK_INPUT) =>
            After = Before

\* a CONFIRM_DONE turn has advanced the session to a next field
C4_Witness ==
    /\ OnOpenSession /\ last.event = "CONFIRM_DONE"
    /\ Before.phase = AWAIT_CONFIRMATION
    /\ Advanced /\ ~IsComplete(last.session_id)

\* C5: a turn sent to a complete session, with any event and any text,
\* leaves current_field_index, phase and collected_values unchanged and
\* returns the completion response with action = null.
C5_CompleteIsIdempotent ==
    (OnCompleteSession /\ ~last.resumed) =>
        /\ After = Before
        /\ last.status = 200
        /\ last.assistant_text.msg = "You have completed the form. Thank you!"
        /\ last.action = NoAction

\* a complete session has answered a USER_SPOKE turn that carried a value
C5_Witness ==
    /\ OnCompleteSession /\ ~last.resumed
    /\ last.event = "USER_SPOKE" /\ last.text # <<>>

\* C6: in phase ASK_INPUT on a voice field, a USER_SPOKE turn with non-empty,
\* non-keyword text stores the value under the current field's id, sets
\* phase AWAIT_CONFIRMATION without changing current_field_index, and
\* returns a draw-guide action with the current field's id and label whose
\* text_to_write is the stored value.
C6_SpokenValueStored ==
    (Answered /\ last.step \in {"extract_return", "extract_fail"}
        /\ last.current_field.input_mode = "voice") =>
        LET id == last.session_id
            field == last.current_field
        IN  /\ get_current_field(sessions, id) = field
            /\ field.field_id \in DOMAIN sessions[id].collected_values
            /\ After.phase = AWAIT_CONFIRMATION
            /\ After.current_field_index = Before.current_field_index
            /\ last.action # NoAction
            /\ last.action.field_id = field.field_id
            /\ last.action.field_label = field.label
            /\ last.action.text_to_write =
                    sessions[id].collected_values[field.field_id]

\* C7: whenever a placeholder field becomes current (at creation, after a
\* CONFIRM_DONE advance, after a SKIP_FIELD advance), the session is in
\* phase AWAIT_CONFIRMATION at once, and the response of the advancing turn
\* carries the draw-guide action for that field with empty text_to_write.
C7_PlaceholderAutoGuide ==
    \A id \in SessionIds :
        (/\ Exists(id) /\ ~IsComplete(id)
         /\ get_current_field(sessions, id).input_mode = "placeholder") =>
            /\ sessions[id].phase = AWAIT_CONFIRMATION
            /\ (OnOpenSession /\ last.session_id = id /\ Advanced) =>
                    last.action = DrawGuideAction(get_current_field(sessions, id),
                                                  <<>>, sessions[id])

\* C8: no value is ever stored in collected_values for a placeholder field.
C8_NoValueForPlaceholder ==
    \A id \in SessionIds :
        Exists(id) =>
            \A k \in 1..NumFields(id) :
                sessions[id].fields[k].input_mode = "placeholder" =>
                    sessions[id].fields[k].field_id
                        \notin DOMAIN sessions[id].collected_values

\* C9: in phase AWAIT_CONFIRMATION, a USER_SPOKE turn whose text is not a
\* confirmation keyword leaves current_field_index, phase and
\* collected_values unchanged and returns the same draw-guide action as the
\* turn that entered AWAIT_CONFIRMATION.
C9_ReemitSameAction ==
    (Answered /\ last.step = "reemit") =>
        /\ After = Before
        /\ last.action = hist[last.session_id].guide

\* C10: SKIP_FIELD on a session that is not complete goes from index i to
\* index i+1 in phase ASK_INPUT (or complete), from either phase, and adds
\* no value to collected_values.
C10_SkipAdvances ==
    (OnOpenSession /\ last.event = "SKIP_FIELD") =>
        /\ Advanced
        /\ AsksInputOrComplete
        /\ After.collected_values = Before.collected_values

\* a SKIP_FIELD turn arrived in AWAIT_CONFIRMATION, with a value collected,
\* and moved the session to a next field
C10_Witness ==
    /\ OnOpenSession /\ last.event = "SKIP_FIELD"
    /\ Before.phase = AWAIT_CONFIRMATION
    /\ DOMAIN Before.collected_values # {}
    /\ ~IsComplete(last.session_id)

-----------------------------------------------------------------------------
(* C11-C20 *)

\* C11: for every turn, the response's action is non-null exactly when the
\* session after the turn is in phase AWAIT_CONFIRMATION on a current field;
\* it is null when the session after the turn is in ASK_INPUT or complete.
C11_ActionIffAwaitingConfirmation ==
    (Answered /\ Before # NoSession) =>
        (last.action # NoAction <=>
            /\ ~IsComplete(last.session_id)
            /\ After.phase = AWAIT_CONFIRMATION)

\* `last` answers a spoken turn on an existing session whose text, trimmed
\* and lower-cased, is in `keywords`
SpokeOneOf(keywords) ==
    /\ Answered
    /\ Before # NoSession
    /\ last.text # <<>>
    /\ Lower(last.text) \in keywords

\* what a CONFIRM_DONE turn does to a session and answers, whatever its text
ConfirmDoneOutcome ==
    /\ last.event = "CONFIRM_DONE"
    /\ last.status = 200
    /\ last.action = NoAction
    /\ IF Before.current_field_index = NumFields(last.session_id)
       THEN /\ After = Before
            /\ last.assistant_text.msg = "You have completed the form. Thank you!"
       ELSE IF Before.phase = ASK_INPUT
       THEN /\ After = Before
            /\ last.assistant_text.msg = "Please speak the value for {label}."
            /\ last.assistant_text.arg = <<last.current_field.label>>
       ELSE /\ After = [Before EXCEPT !.current_field_index = @ + 1,
                                      !.phase = ASK_INPUT]
            /\ IF IsComplete(last.session_id)
               THEN last.assistant_text.msg = "Great job! The form is complete."
               ELSE /\ last.assistant_text.msg =
                            "Now please say the value for {label}."
                    /\ last.assistant_text.arg =
                            <<get_current_field(sessions, last.session_id).label>>

\* C12: a USER_SPOKE turn whose text, lower-cased and trimmed, is any member
\* of {done, finished, ok, completed, yes, next, y, confirmed} is processed
\* as CONFIRM_DONE.
C12_EveryListedKeywordConfirms ==
    SpokeOneOf({ <<"d","o","n","e">>,
                 <<"f","i","n","i","s","h","e","d">>,
                 <<"o","k">>,
                 <<"c","o","m","p","l","e","t","e","d">>,
                 <<"y","e","s">>,
                 <<"n","e","x","t">>,
                 <<"y">>,
                 <<"c","o","n","f","i","r","m","e","d">> })
        => ConfirmDoneOutcome

\* the spoken texts "  Done  ", "DONE" and "\toK\n" once trimmed (chat.py
\* line 85): variants in letter case of the recognized keywords done and ok
KeywordVariants ==
    { <<"D","o","n","e">>, <<"D","O","N","E">>, <<"o","K">> }

\* C13: for every keyword k the processor recognizes, every variant of k in
\* letter case or surrounding whitespace produces the same resulting state
\* and response as k: those of a CONFIRM_DONE turn, in which the text plays
\* no part.
C13_KeywordVariantsConfirm ==
    (/\ Answered
     /\ Before # NoSession
     /\ last.text \in confirmation_words \cup KeywordVariants)
        => ConfirmDoneOutcome

\* a variant in letter case of a recognized keyword has confirmed a field
C13_Witness ==
    /\ Answered
    /\ Before # NoSession
    /\ last.text \in KeywordVariants
    /\ Before.phase = AWAIT_CONFIRMATION
    /\ Advanced

\* `last` answers a USER_SPOKE turn that stored a value for a voice field
StoredSpokenValue ==
    /\ Answered
    /\ last.step = "extract_return"
    /\ last.current_field.input_mode = "voice"

\* the value collected for the field the turn of `last` worked on
StoredValue ==
    sessions[last.session_id].collected_values[last.current_field.field_id]

\* C14: for a voice field with write_language = numeric, the value stored by
\* a USER_SPOKE turn is the spoken text with every character that is not a
\* decimal digit removed, the digits kept in order.
C14_NumericValueIsDigits ==
    (StoredSpokenValue /\ last.current_field.write_language = "numeric") =>
        /\ StoredValue = normalize(last.text, "numeric")
        /\ \A k \in 1..Len(StoredValue) : StoredValue[k] \in Digits

\* C15: for a voice field whose write_language is not numeric, the value
\* stored is the spoken text with every run of whitespace collapsed to one
\* space and leading and trailing whitespace removed.
C15_TextValueIsCollapsed ==
    (StoredSpokenValue /\ last.current_field.write_language # "numeric") =>
        StoredValue = normalize(last.text, last.current_field.write_language)

\* the sticky language of a session, None while the session does not exist
Sticky(S, id) == StoredLanguage(S, id)

\* `last` is the response of a speech recognition call
SttAnswered == last.step = "stt"

\* C16: a session's sticky language is set at most once: once it has a
\* value, no later speech recognition or turn changes it, whatever language
\* it reports and in whatever order the calls come.
C16_StickyLanguageSetOnce ==
    [][ \A id \in SessionIds :
            Sticky(sessions, id) # NoLanguage =>
                Sticky(sessions', id) = Sticky(sessions, id) ]_vars

\* a recognition reported another language than the sticky one, which stayed
C16_Witness ==
    /\ SttAnswered
    /\ last.before # NoLanguage
    /\ last.detected_language \notin {"unknown", last.before}
    /\ Sticky(sessions, last.session_id) = last.before

\* C17: the language resolved for a request is the first non-empty value
\* among the session's sticky language, the newly detected language and the
\* default "en": when a sticky language exists it is the one returned, even
\* if the call detected another language.
C17_StickyLanguageResolvedFirst ==
    SttAnswered =>
        last.language = FirstNonEmpty(<<last.before, last.detected_language, "en">>)

\* C18: a language is written to the session only when the session had no
\* sticky language yet and the value found is non-default (not "en", not
\* empty or unknown); in every other case the session's language is left
\* untouched.
C18_OnlyNonDefaultLanguageWritten ==
    [][ \A id \in SessionIds :
            (/\ Exists(id)
             /\ Sticky(sessions', id) # Sticky(sessions, id)) =>
                /\ Sticky(sessions, id) = NoLanguage
                /\ Sticky(sessions', id) \notin {NoLanguage, "unknown"}
                /\ normalize_language(Sticky(sessions', id)) # "en" ]_vars

\* C19: a turn for a session_id that does not exist is answered with 404,
\* creates no session and changes no existing session.
C19_UnknownSessionIs404 ==
    [][ (Answered' /\ get_session(sessions, last'.session_id) = NoSession) =>
            /\ last'.status = 404
            /\ sessions' = sessions ]_vars

\* a turn for an unknown session_id got its 404 while a session with a
\* collected value existed
C19_Witness ==
    /\ Answered
    /\ last.status = 404
    /\ last.session_id \in UnknownIds
    /\ \E id \in SessionIds :
          Exists(id) /\ DOMAIN sessions[id].collected_values # {}

\* C20: on a non-complete session, a turn whose event resolves to USER_SPOKE
\* with missing or empty user_text is answered with 400 in phase ASK_INPUT
\* and in phase AWAIT_CONFIRMATION alike and leaves the session unchanged;
\* no other turn on an existing session is answered with 400.
C20_EmptyTextIs400InBothPhases ==
    /\ (OnOpenSession /\ ~last.resumed
            /\ last.event = "USER_SPOKE" /\ last.text = <<>>) =>
            /\ last.status = 400
            /\ After = Before
    /\ (Answered /\ Before # NoSession /\ last.status = 400) =>
            /\ OnOpenSession
            /\ last.event = "USER_SPOKE"
            /\ last.text = <<>>

-----------------------------------------------------------------------------
(* C21-C30 *)

\* `last` answers a USER_SPOKE turn whose value extraction failed
ExtractionFailed == Answered /\ last.step = "extract_fail"

\* the session holds `value` for the field the turn of `last` loaded as
\* current
HoldsValue(value) ==
    /\ last.current_field.field_id \in DOMAIN After.collected_values
    /\ After.collected_values[last.current_field.field_id] = value

\* C21: when the value extraction of a USER_SPOKE turn fails, the session is
\* left either with the value stored and in phase AWAIT_CONFIRMATION, or with
\* current_field_index, phase and collected_values exactly as the turn
\* loaded them.
C21_FailedExtractionLeavesSessionAsLoaded ==
    ExtractionFailed =>
        \/ HoldsValue(last.text) /\ After.phase = AWAIT_CONFIRMATION
        \/ After = last.loaded

\* C22: a turn on an existing session with valid input (not a USER_SPOKE
\* without text) is answered with 200, whether or not the external services
\* it calls fail.
C22_ExternalFailureStillAnswers200 ==
    (/\ Answered
     /\ Before # NoSession
     /\ ~(last.event = "USER_SPOKE" /\ last.text = <<>>))
        => last.status = 200

\* the field ids whose entry in collected_values differs between the session
\* states `old` and `new`
WrittenEntries(old, new) ==
    { f \in DOMAIN new.collected_values :
        IF f \in DOMAIN old.collected_values
        THEN new.collected_values[f] # old.collected_values[f]
        ELSE TRUE }

\* C23: a step writes collected_values[f] only when f is the field at
\* current_field_index at the moment of the write.
C23_ValueWrittenOnlyForCurrentField ==
    [][\A id \in SessionIds :
          (Exists(id) /\ sessions'[id] # NoSession) =>
              \A f \in WrittenEntries(sessions[id], sessions'[id]) :
                  /\ get_current_field(sessions, id) # NoField
                  /\ get_current_field(sessions, id).field_id = f]_vars

\* the ids of the fields the index of session state `state` has passed
PassedFields(state) ==
    { state.fields[k].field_id : k \in 1..state.current_field_index }

\* C24: the entry that collected_values holds for a field the index has
\* advanced past is never changed by a later step.
C24_ConfirmedEntryNeverChanges ==
    [][\A id \in SessionIds :
          (Exists(id) /\ sessions'[id] # NoSession) =>
              \A f \in PassedFields(sessions[id]) \cap
                       DOMAIN sessions[id].collected_values :
                  /\ f \in DOMAIN sessions'[id].collected_values
                  /\ sessions'[id].collected_values[f] =
                        sessions[id].collected_values[f]]_vars

\* C25: the fields of an existing session never change: neither the list of
\* the session state nor the list the store keeps for the session.
C25_FieldsNeverChange ==
    [][\A id \in SessionIds :
          /\ (Exists(id) /\ sessions'[id] # NoSession) =>
                sessions'[id].fields = sessions[id].fields
          /\ SelectRow(store, id) # NoRow =>
                /\ SelectRow(store', id) # NoRow
                /\ SelectRow(store', id).fields_json =
                      SelectRow(store, id).fields_json]_vars

\* `last` is the response of /analyze-form for a new session
Created == last.step = "analyze"

\* C26: a newly created session has current_field_index 0, phase ASK_INPUT
\* and no collected values, and its fields are those of the catalog in the
\* catalog's order, in the session state and in the store alike.
C26_NewSessionStartsAtFirstField ==
    Created =>
        LET state == sessions[last.session_id]
            record == store_get_session(store, last.session_id)
        IN  /\ state.current_field_index = 0
            /\ state.phase = ASK_INPUT
            /\ DOMAIN state.collected_values = {}
            /\ state.fields = last.fields
            /\ record.current_field_index = 0
            /\ DOMAIN record.filled_fields = {}
            /\ record.fields = last.fields

\* a session has been created from a catalog of more than one field
C26_Witness ==
    /\ Created
    /\ Len(last.fields) > 1
    /\ sessions[last.session_id].fields[2].label = last.fields[2].label

\* C27: after a turn on an existing session the store's record of the
\* session has the current_field_index and the collected values of the
\* state the turn produced.
C27_TurnPersistsStateToStore ==
    (Answered /\ Before # NoSession) =>
        LET record == store_get_session(store, last.session_id) IN
        /\ record # NoRow
        /\ record.current_field_index = After.current_field_index
        /\ \A f \in DOMAIN After.collected_values :
              /\ f \in DOMAIN record.filled_fields
              /\ record.filled_fields[f] = After.collected_values[f]

\* `last` is what the store's get_session returned
Loaded == last.step = "get_session"

\* C28: get_session returns None exactly for an id that was never created;
\* for a created session it returns the id asked for, the image dimensions,
\* the fields and the filled values that the row encodes, and the message
\* log stored for the session.
C28_StoreRoundTrips ==
    Loaded =>
        LET row == SelectRow(store, last.session_id) IN
        IF last.session_id \notin DOMAIN store.sessions
        THEN last.result = NoRow
        ELSE /\ last.result # NoRow
             /\ last.result.session_id = last.session_id
             /\ last.result.image_width = ImageWidth
             /\ last.result.image_height = ImageHeight
             /\ \A fields \in {sessions[last.session_id].fields} :
                   row.fields_json = dumps_fields(fields) =>
                       last.result.fields = fields
             /\ dumps_dict(last.result.filled_fields) = row.filled_fields_json
             /\ last.messages # <<>> =>
                   /\ "messages" \in DOMAIN last.result
                   /\ last.result.messages = last.messages

\* C29: while the store runs an operation for one session_id, a caller with
\* an operation for another session_id can enter the store.
C29_OtherSessionsNeverWait ==
    lock # Unlocked =>
        \E name \in StoreOperations, id \in StoreIds :
            /\ id # lock.session_id
            /\ ENABLED WithDb(name, id)

\* the details of the 500 responses that report a broken invariant
InvariantErrors ==
    {"No current field", "No next field after skip", "Invalid state"}

\* C30: no turn is answered with "No current field", "No next field after
\* skip" or "Invalid state": every existing session is in one of the two
\* phases, and a session that has more fields has a current field.
C30_NoCurrentFieldErrorUnreachable ==
    /\ Answered =>
          ~(last.status = 500 /\ last.assistant_text.msg \in InvariantErrors)
    /\ \A id \in SessionIds :
          Exists(id) =>
              /\ sessions[id].phase \in Phase
              /\ has_more_fields(sessions, id) =>
                    get_current_field(sessions, id) # NoField

\* a turn has found the last field of its session as the current field and
\* has been answered with 200
C30_Witness ==
    /\ OnOpenSession
    /\ Before.current_field_index = NumFields(last.session_id) - 1
    /\ last.current_field # NoField
    /\ last.status = 200

-----------------------------------------------------------------------------
(* C31-C39 *)

\* C31: in phase ASK_INPUT a CONFIRM_DONE turn (the event, or a confirmation
\* keyword spoken) is answered with 200, the prompt to speak the value of the
\* current field and action = null, and leaves current_field_index, phase
\* and collected_values unchanged.
C31_ConfirmInAskInputOnlyPrompts ==
    (OnOpenSession /\ ~last.resumed /\ Before.phase = ASK_INPUT
        /\ last.event = "CONFIRM_DONE") =>
        /\ last.status = 200
        /\ last.assistant_text.msg = "Please speak the value for {label}."
        /\ last.assistant_text.arg = <<last.current_field.label>>
        /\ last.current_field = get_current_field(sessions, last.session_id)
        /\ last.action = NoAction
        /\ After = Before

\* a confirmation keyword spoken in ASK_INPUT has been answered, on a session
\* that holds a value for an earlier field
C31_Witness ==
    /\ OnOpenSession /\ ~last.resumed /\ Before.phase = ASK_INPUT
    /\ last.event = "CONFIRM_DONE" /\ last.text # <<>>
    /\ Before.collected_values # <<>>
    /\ last.status = 200

\* the texts that are confirmation keywords once stripped and lower-cased
SpokenKeywords == confirmation_words \cup KeywordVariants

TurnOutcome ==
    IF last.step \in {"skip", "confirm"}
    THEN [Before EXCEPT !.current_field_index = @ + 1, !.phase = ASK_INPUT]
    ELSE IF last.step = "extract_return"
    THEN [Before EXCEPT
            !.collected_values = DictSet(@, last.current_field.field_id,
                                         last.action.text_to_write),
            !.phase = AWAIT_CONFIRMATION]
    ELSE Before

\* `last` is a 200 whose text came out in English for a session whose
\* language is not English: the translation or generation call failed
TextCallFailed ==
    /\ Answered /\ Before # NoSession /\ last.status = 200
    /\ UserLang(sessions[last.session_id]) # "en"
    /\ last.assistant_text.lang = "en"

\* C33: a failed translation or instruction-generation call changes only the
\* text of the response: the turn is answered with 200 and the English text,
\* and current_field_index, phase and collected_values come out as they do
\* when the call succeeds.
C33_TextFailureChangesOnlyText ==
    (Answered /\ Before # NoSession /\ last.status = 200) =>
        /\ After = TurnOutcome
        /\ last.assistant_text.lang
              \in {"en", UserLang(sessions[last.session_id])}

\* a CONFIRM_DONE turn of a session that speaks another language has been
\* answered in English, and the session has moved on
C33_Witness ==
    /\ TextCallFailed
    /\ last.step = "confirm"
    /\ Advanced

\* C34: a missing or empty event and an unrecognized one are treated as
\* USER_SPOKE; the aliases USER, CONFIRM / CONFIRMATION and SKIP / SKIPFIELD,
\* in any case and with surrounding whitespace, are mapped to USER_SPOKE,
\* CONFIRM_DONE and SKIP_FIELD; the turn processor only ever sees one of the
\* three events.
C34_EventNormalized ==
    /\ last.step = "request" =>
          /\ last.raw_event \in {NoEvent, <<>>} \cup RawUnrecognized =>
                last.event = "USER_SPOKE"
          /\ last.raw_event \in RawUserSpoke => last.event = "USER_SPOKE"
          /\ last.raw_event \in RawConfirm => last.event = "CONFIRM_DONE"
          /\ last.raw_event \in RawSkip => last.event = "SKIP_FIELD"
    /\ \A i \in Slots : turns[i] # NoTurn => turns[i].event \in Events
    /\ Answered => last.event \in Events

\* a request whose event was written " Confirm " has arrived as CONFIRM_DONE
C34_Witness ==
    /\ last.step = "request"
    /\ last.raw_event = <<" ","C","o","n","f","i","r","m"," ">>
    /\ turns[1] # NoTurn /\ turns[1].event = "CONFIRM_DONE"

\* one step leaves the index of every session in memory equal or larger by
\* 1, and no field it has passed is the current field after the step
MemoryIndexSteps ==
    \A id \in SessionIds :
        Exists(id) =>
            /\ sessions'[id] # NoSession
            /\ sessions'[id].current_field_index
                  \in { sessions[id].current_field_index,
                        sessions[id].current_field_index + 1 }
            /\ \A k \in 1..sessions[id].current_field_index :
                  get_current_field(sessions', id) # sessions[id].fields[k]

\* ... and the index of every session row of the store
StoreIndexSteps ==
    \A id \in SessionIds :
        SelectRow(store, id) # NoRow =>
            /\ SelectRow(store', id) # NoRow
            /\ SelectRow(store', id).current_field_index
                  \in { SelectRow(store, id).current_field_index,
                        SelectRow(store, id).current_field_index + 1 }

C36_AwaitingFieldHasValue ==
    \A id \in SessionIds :
        (/\ Exists(id) /\ ~IsComplete(id)
         /\ sessions[id].phase = AWAIT_CONFIRMATION
         /\ get_current_field(sessions, id).input_mode = "voice") =>
            get_current_field(sessions, id).field_id
                \in DOMAIN sessions[id].collected_values

\* the turns sent so far were all SKIP_FIELD
AllSkips(sent) == \A k \in 1..Len(sent) : sent[k] = "SKIP_FIELD"

\* ... were a spoken value and CONFIRM_DONE in turn
Alternating(sent) ==
    \A k \in 1..Len(sent) :
        sent[k] = IF k % 2 = 1 THEN "USER_SPOKE" ELSE "CONFIRM_DONE"

\* With every turn answered: after k SKIP_FIELD turns the session is at index
\* k; after k alternating turns it is at index k \div 2, waiting for the
\* confirmation when k is odd.  So the session is complete after exactly
\* len(fields) skips and after exactly 2 * len(fields) alternating turns.
TurnsCount ==
    \A id \in SessionIds :
        (Exists(id) /\ \A i \in Slots : turns[i] = NoTurn) =>
            LET sent == hist[id].sent
                state == sessions[id]
            IN  /\ AllSkips(sent) =>
                      /\ state.current_field_index = Len(sent)
                      /\ IsComplete(id) <=> Len(sent) = NumFields(id)
                /\ Alternating(sent) =>
                      /\ state.current_field_index = Len(sent) \div 2
                      /\ state.phase = IF Len(sent) % 2 = 1
                                       THEN AWAIT_CONFIRMATION ELSE ASK_INPUT
                      /\ IsComplete(id) <=> Len(sent) = 2 * NumFields(id)

\* a complete session stays complete
StaysComplete ==
    \A id \in SessionIds :
        (Exists(id) /\ IsComplete(id)) =>
            (sessions'[id] # NoSession
                /\ sessions'[id].current_field_index = Len(sessions'[id].fields))

\* C37: every session can be completed: a session with n fields is complete
\* after exactly n SKIP_FIELD turns, and after exactly 2n turns that
\* alternate a valid spoken value and CONFIRM_DONE; with a user who keeps
\* sending valid events and external calls that return, every session
\* becomes complete and stays complete.
C37_SessionCompletes ==
    /\ []TurnsCount
    /\ [][StaysComplete]_vars
    /\ \A id \in SessionIds :
          Exists(id) ~> (IF Exists(id) THEN IsComplete(id) ELSE FALSE)

\* what of an action the user writes from
Guide(action) ==
    IF action = NoAction THEN NoAction
    ELSE [ field_id      |-> action.field_id,
           bbox          |-> action.bbox,
           text_to_write |-> action.text_to_write ]

\* both twins exist and every request sent to them has been answered
TwinsAnswered ==
    /\ \A id \in TwinIds : id \in DOMAIN sessions /\ sessions[id] # NoSession
    /\ \A i \in Slots : turns[i] = NoTurn

\* C38: the language of a session does not influence the state machine: two
\* sessions with the same fields that got the same events and texts and
\* differ only in their sticky language have the same current_field_index,
\* phase and collected_values, got the same draw-guide action (field_id,
\* bbox, text_to_write), and would re-emit the same one.
C38_LanguageDoesNotSteer ==
    TwinsAnswered =>
        LET first == sessions[FirstTwin]
            second == sessions[SecondTwin]
        IN  /\ first.fields = second.fields
            /\ Core(first) = Core(second)
            /\ Guide(hist[FirstTwin].guide) = Guide(hist[SecondTwin].guide)
            /\ has_more_fields(sessions, FirstTwin) =>
                  Guide(ReemitAction(first, get_current_field(sessions, FirstTwin)))
                    = Guide(ReemitAction(second,
                                get_current_field(sessions, SecondTwin)))

\* twins with different languages have stored a value, confirmed it and
\* wait for the confirmation of a second one
C38_Witness ==
    /\ TwinsAnswered
    /\ UserLang(sessions[FirstTwin]) # UserLang(sessions[SecondTwin])
    /\ sessions[SecondTwin].current_field_index = 1
    /\ sessions[SecondTwin].phase = AWAIT_CONFIRMATION
    /\ hist[SecondTwin].guide # NoAction
    /\ hist[FirstTwin].guide # NoAction

\* `last` answers an upload of an image file
ImageUploadAnswered ==
    last.step = "upload" /\ last.content_type = "image/png"

C37_Witness ==
    /\ Exists("s1") /\ IsComplete("s1")
    /\ NumFields("s1") = MaxFields
    /\ Alternating(hist["s1"].sent)
    /\ Len(hist["s1"].sent) = 2 * MaxFields

====
